---- MODULE Spec2Model ----
(***************************************************************************)
(* Model of pharmacy_expiry_tracker_supabase_auth.py: a Streamlit page     *)
(* over a Supabase record store.  Every browser session has its own        *)
(* st.session_state; st.cache_data is one cache shared by all sessions of  *)
(* the server process, keyed by the arguments of the cached function.      *)
(*                                                                         *)
(* The model follows one browser session, in which users log in one after  *)
(* the other.                                                              *)
(*                                                                         *)
(* A script run is split at one place: the                                 *)
(* widget handler (login, logout, add form, view button) is one step, the  *)
(* inventory part of the script (lines 228-283) is the step Render.        *)
(* st.rerun() restarts the script, which for a logged-in session means     *)
(* that Render runs next.  The position pc of a session is "render" while  *)
(* the inventory is still to run, and otherwise the page the last run left *)
(* on the screen: "login" or "main".                                       *)
(*                                                                         *)
(* Time is counted in seconds.  A calendar date is a day number d, its     *)
(* midnight is the instant d * SecondsPerDay.  The emoji that decorate the *)
(* status strings are written as {red circle}, {orange circle}, ...        *)
(***************************************************************************)
EXTENDS Integers, Sequences, FiniteSets, TLC

VARIABLES
    now,        \* datetime.now(), in seconds
    storeUp,    \* whether the record store answers
    store,      \* the expiry_tracker table: a sequence of rows
    cache,      \* st.cache_data entries of get_all_products, by uid
    session,    \* st.session_state and the script position, by session
    out,        \* what the last script step put on the page
    call        \* a single call of a pure function: arguments and result

vars == <<now, storeUp, store, cache, session, out, call>>
app == <<now, storeUp, store, cache, session, out>>

----------------------------------------------------------------------------
\* Bounds of the model.

\* the clock runs over the days 0..MaxDay
MaxDay == 1
\* rows the table can hold
MaxRecords == 2
\* classify_status is called on -DaysBelow..DaysAbove
DaysBelow == 5
DaysAbove == 185
\* rows of a record set handed to the report pipeline
MaxRows == 2

----------------------------------------------------------------------------
\* Program constants.

UrgentDays == 30
WarningDays == 90
SixMonthsDays == 180
CacheTTL == 300
SecondsPerDay == 24 * 60 * 60

Users == {"u1", "u2"}
Sessions == {"s1"}
None == "None"
Views == {"all", "6months", "expired"}
ProductNames == {"", "Amoxicillin"}
Quantities == {0, 1}
InsertResponses == {"data", "nodata", "exception"}

\* the instants the clock is read at: the first midnight, and a third of the
\* TTL before and after every midnight
ClockStep == CacheTTL \div 3
Instants ==
    {0, ClockStep} \cup
    {d * SecondsPerDay + o : d \in 1..MaxDay, o \in {0 - ClockStep, ClockStep}}
\* the dates the add form is given: the first day of the clock and the next
ExpiryDates == {0, 1}

\* init_supabase(): the client made with the public key only
AnonClient == [token |-> None]
\* create_client(..., options = Authorization: Bearer <access token of u>)
AuthClient(u) == [token |-> u]

EXPIRED == "{red circle} EXPIRED"
URGENT == "{orange circle} URGENT"
WARNING == "{yellow circle} WARNING"
SAFE == "{green circle} SAFE"

----------------------------------------------------------------------------
\* Helper functions of the script.

classify_status_le(days) ==
    IF days < 0 THEN EXPIRED
    ELSE IF days <= UrgentDays THEN URGENT
    ELSE IF days < WarningDays THEN WARNING
    ELSE SAFE

classify_status(days) ==
    IF days < 0 THEN EXPIRED
    ELSE IF days < UrgentDays THEN URGENT
    ELSE IF days < WarningDays THEN WARNING
    ELSE SAFE

\* date.isoformat() followed by pd.to_datetime(): the midnight of the date
to_datetime(d) == d * SecondsPerDay

\* (expiry_date - datetime.now()).dt.days: timedelta.days is the floor
days_to_expiry(ts, t) == (ts - t) \div SecondsPerDay

\* the calendar date of an instant
DateOf(t) == t \div SecondsPerDay

\* lines 86-92 of get_all_products on the fetched rows
Annotate(rows, t) ==
    [i \in 1..Len(rows) |->
        [id |-> rows[i].id,
         user_id |-> rows[i].user_id,
         product_name |-> rows[i].product_name,
         quantity |-> rows[i].quantity,
         expiry_date |-> to_datetime(rows[i].expiry_date),
         days_to_expiry |-> days_to_expiry(to_datetime(rows[i].expiry_date), t),
         status |-> classify_status(days_to_expiry(to_datetime(rows[i].expiry_date), t))]]

FetchAll(table, uid) == table

\* table("expiry_tracker").select("*").eq("user_id", uid)
Fetch(table, uid) == SelectSeq(table, LAMBDA r : r.user_id = uid)

\* the body of get_all_products: the frame and whether st.error was called
Compute(uid) ==
    IF storeUp
    THEN [df |-> Annotate(Fetch(store, uid), now), error |-> FALSE]
    ELSE [df |-> <<>>, error |-> TRUE]

\* @st.cache_data(ttl=300): an entry is served while it is younger than the TTL
CacheHit(uid) == cache[uid].valid /\ now - cache[uid].at < CacheTTL

get_all_products(uid) == IF CacheHit(uid) THEN cache[uid].value ELSE Compute(uid)

CacheAfterGet(uid) ==
    IF CacheHit(uid)
    THEN cache
    ELSE [cache EXCEPT ![uid] = [valid |-> TRUE, at |-> now, value |-> Compute(uid)]]

NoEntry == [valid |-> FALSE, at |-> 0, value |-> [df |-> <<>>, error |-> FALSE]]

\* st.cache_data.clear()
ClearedCache == [u \in Users |-> NoEntry]

ViewFilterNoExpired(df, view) ==
    IF view = "6months"
    THEN SelectSeq(df, LAMBDA r : r.days_to_expiry >= 0 /\ r.days_to_expiry <= SixMonthsDays)
    ELSE IF view = "expired"
    THEN SelectSeq(df, LAMBDA r : r.days_to_expiry < 0)
    ELSE df

\* lines 253-256
ViewFilter(df, view) ==
    IF view = "6months"
    THEN SelectSeq(df, LAMBDA r : r.days_to_expiry <= SixMonthsDays)
    ELSE IF view = "expired"
    THEN SelectSeq(df, LAMBDA r : r.days_to_expiry < 0)
    ELSE df

CsvHeader == <<"product_name", "quantity", "expiry_date", "status">>

\* generate_csv: the header and one line per row, the four columns copied
generate_csv(df) ==
    <<CsvHeader>> \o
    [i \in 1..Len(df) |->
        <<df[i].product_name, df[i].quantity, DateOf(df[i].expiry_date), df[i].status>>]
\* (to_csv writes a midnight timestamp as its date)

Blank(s, msg) == [s |-> s, user |-> session[s].user, msg |-> msg, df |-> <<>>, csv |-> <<>>]

----------------------------------------------------------------------------
\* The application.

Init ==
    /\ now = 0
    /\ storeUp = TRUE
    /\ store = <<>>
    /\ cache = ClearedCache
    /\ session = [s \in Sessions |->
                    [user |-> None, supabase |-> AnonClient, view |-> "unset", pc |-> "login"]]
    /\ out = [s |-> "s1", user |-> None, msg |-> "", df |-> <<>>, csv |-> <<>>]
    /\ call = [fn |-> "none"]

\* the wall clock moves on
Tick ==
    /\ \E t \in Instants : t > now /\ now' = t
    /\ UNCHANGED <<storeUp, store, cache, session, out, call>>

StoreFails ==
    /\ storeUp
    /\ storeUp' = FALSE
    /\ UNCHANGED <<now, store, cache, session, out, call>>

StoreRecovers ==
    /\ ~storeUp
    /\ storeUp' = TRUE
    /\ UNCHANGED <<now, store, cache, session, out, call>>

\* The Login button.  cred is what the form holds: nothing, credentials the
\* auth service refuses, or those of a user; clientOk is whether create_client
\* of line 162 returns or raises.
Login(s, cred, clientOk) ==
    /\ session[s].pc = "login"
    /\ session[s].user = None
    /\ UNCHANGED <<now, storeUp, store, cache, call>>
    /\ IF cred = "empty"
       THEN /\ out' = Blank(s, "Please enter both email and password.")
            /\ UNCHANGED session
       ELSE IF cred = "refused"
       THEN /\ out' = Blank(s, "Login failed")
            /\ UNCHANGED session
       ELSE IF clientOk
       THEN /\ session' = [session EXCEPT ![s].user = cred,
                                          ![s].supabase = AuthClient(cred),
                                          ![s].pc = "render"]
            /\ out' = [Blank(s, "Logged in successfully!") EXCEPT !.user = cred]
       ELSE /\ session' = [session EXCEPT ![s].user = cred]
            /\ out' = [Blank(s, "Login failed") EXCEPT !.user = cred]

\* The Logout button.  signOutOk is whether supabase.auth.sign_out() returns;
\* when it raises the script run ends there.
Logout(s, signOutOk) ==
    /\ session[s].pc = "main"
    /\ session[s].user # None
    /\ UNCHANGED <<now, storeUp, store, call>>
    /\ IF signOutOk
       THEN /\ session' = [session EXCEPT ![s].user = None, ![s].supabase = AnonClient,
                                          ![s].pc = "login"]
            /\ cache' = ClearedCache
            /\ out' = [Blank(s, "Login or Sign Up") EXCEPT !.user = None]
       ELSE /\ out' = Blank(s, "exception")
            /\ UNCHANGED <<session, cache>>

AddProductUnchecked(s, product_name, quantity, expiry_date, resp) ==
    /\ session[s].pc = "main"
    /\ session[s].user # None
    /\ Len(store) < MaxRecords
    /\ ~storeUp => resp = "exception"
    /\ UNCHANGED <<now, storeUp, call>>
    /\ session' = [session EXCEPT ![s].pc = "render"]
    /\ IF resp = "data"
       THEN /\ store' = Append(store,
                   [id |-> Len(store) + 1, user_id |-> session[s].user,
                    product_name |-> product_name, quantity |-> quantity,
                    expiry_date |-> expiry_date])
            /\ cache' = ClearedCache
            /\ out' = Blank(s, "added successfully!")
       ELSE IF resp = "nodata"
       THEN /\ out' = Blank(s, "Failed to add product.")
            /\ UNCHANGED <<store, cache>>
       ELSE /\ out' = Blank(s, "Error adding product")
            /\ UNCHANGED <<store, cache>>

\* The add_product form, lines 205-226.  resp is what insert(...).execute()
\* gives: the inserted row, no data, or an exception; only the first commits,
\* and a store that does not answer gives the exception.  The table is full
\* at MaxRecords rows.
\* The script goes on to the inventory unless st.rerun() restarts it, and
\* then the inventory is what runs next as well.
AddProduct(s, product_name, quantity, expiry_date, resp) ==
    /\ session[s].pc = "main"
    /\ session[s].user # None
    /\ Len(store) < MaxRecords
    /\ ~storeUp => resp = "exception"
    /\ UNCHANGED <<now, storeUp, call>>
    /\ session' = [session EXCEPT ![s].pc = "render"]
    /\ IF product_name = ""
       THEN /\ out' = Blank(s, "Product Name cannot be empty.")
            /\ UNCHANGED <<store, cache>>
       ELSE IF quantity <= 0
       THEN /\ out' = Blank(s, "Quantity must be greater than zero.")
            /\ UNCHANGED <<store, cache>>
       ELSE IF resp = "data"
       THEN /\ store' = Append(store,
                   [id |-> Len(store) + 1, user_id |-> session[s].user,
                    product_name |-> product_name, quantity |-> quantity,
                    expiry_date |-> expiry_date])
            /\ cache' = ClearedCache
            /\ out' = Blank(s, "added successfully!")
       ELSE IF resp = "nodata"
       THEN /\ out' = Blank(s, "Failed to add product.")
            /\ UNCHANGED <<store, cache>>
       ELSE /\ out' = Blank(s, "Error adding product")
            /\ UNCHANGED <<store, cache>>

\* One of the three view buttons, lines 237-245
ViewButton(s, v) ==
    /\ session[s].pc = "main"
    /\ session[s].user # None
    /\ session' = [session EXCEPT ![s].view = v, ![s].pc = "render"]
    /\ UNCHANGED <<now, storeUp, store, cache, out, call>>

\* Any other rerun of the script of a session whose user is set: a widget of
\* the inventory page, or any widget of the login page that a login left on
\* the screen after it had set the user (line 109 then takes the else branch)
Rerun(s) ==
    /\ session[s].pc \in {"login", "main"}
    /\ session[s].user # None
    /\ session' = [session EXCEPT ![s].pc = "render"]
    /\ UNCHANGED <<now, storeUp, store, cache, out, call>>

\* The inventory, lines 228-283: the read, the default view, the filter, the
\* table and the CSV of the download button.
Render(s) ==
    /\ session[s].pc = "render"
    /\ session[s].user # None
    /\ LET uid == session[s].user
           got == get_all_products(uid)
           view == IF session[s].view = "unset" THEN "all" ELSE session[s].view
           df == ViewFilter(got.df, view)
       IN /\ cache' = CacheAfterGet(uid)
          /\ session' = [session EXCEPT ![s].view = view, ![s].pc = "main"]
          /\ out' = IF got.df # <<>>
                    THEN [s |-> s, user |-> uid,
                          msg |-> IF got.error THEN "Error fetching data" ELSE "inventory",
                          df |-> df, csv |-> generate_csv(df)]
                    ELSE [s |-> s, user |-> uid,
                          msg |-> IF got.error THEN "Error fetching data"
                                  ELSE "No products found in this category.",
                          df |-> <<>>, csv |-> <<>>]
    /\ UNCHANGED <<now, storeUp, store, call>>

Next ==
    \/ Tick
    \/ StoreFails
    \/ StoreRecovers
    \/ \E s \in Sessions, cred \in {"empty", "refused"} \cup Users, clientOk \in BOOLEAN :
          Login(s, cred, clientOk)
    \/ \E s \in Sessions, signOutOk \in BOOLEAN : Logout(s, signOutOk)
    \/ \E s \in Sessions, n \in ProductNames, q \in Quantities, e \in ExpiryDates,
          resp \in InsertResponses : AddProduct(s, n, q, e, resp)
    \/ \E s \in Sessions, v \in Views : ViewButton(s, v)
    \/ \E s \in Sessions : Rerun(s)
    \/ \E s \in Sessions : Render(s)

Spec == Init /\ [][Next]_vars

----------------------------------------------------------------------------
\* classify_status called on one days value.

DaysRange == (0 - DaysBelow)..DaysAbove

InitClassify ==
    /\ now = 0
    /\ storeUp = TRUE
    /\ store = <<>>
    /\ cache = ClearedCache
    /\ session = [s \in Sessions |->
                    [user |-> None, supabase |-> AnonClient, view |-> "unset", pc |-> "login"]]
    /\ out = [s |-> "s1", user |-> None, msg |-> "", df |-> <<>>, csv |-> <<>>]
    /\ call \in [fn : {"classify_status"}, days : DaysRange, done : {FALSE}, status : {""}]

Classify ==
    /\ call.fn = "classify_status"
    /\ ~call.done
    /\ call' = [call EXCEPT !.done = TRUE, !.status = classify_status(call.days)]
    /\ UNCHANGED app

NextClassify == Classify

SpecClassify == InitClassify /\ [][NextClassify]_vars

----------------------------------------------------------------------------
\* The report pipeline of the inventory (annotate, filter by view, CSV) on
\* one record set, read at one instant.

ReportDates ==
    {0 - 1, 0, 1, SixMonthsDays - 1, SixMonthsDays, SixMonthsDays + 1, SixMonthsDays + 2}

RecordSets ==
    UNION {[1..n -> ReportDates] : n \in 0..MaxRows}

RowsOf(dates) ==
    [i \in 1..Len(dates) |->
        [id |-> i, user_id |-> "u1", product_name |-> "Amoxicillin", quantity |-> 1,
         expiry_date |-> dates[i]]]

InitReport ==
    /\ now \in {0, ClockStep}
    /\ storeUp = TRUE
    /\ store = <<>>
    /\ cache = ClearedCache
    /\ session = [s \in Sessions |->
                    [user |-> None, supabase |-> AnonClient, view |-> "unset", pc |-> "login"]]
    /\ out = [s |-> "s1", user |-> None, msg |-> "", df |-> <<>>, csv |-> <<>>]
    /\ \E dates \in RecordSets, v \in Views :
          call = [fn |-> "report", records |-> RowsOf(dates), view |-> v,
                  done |-> FALSE, df |-> <<>>, csv |-> <<>>]

Report ==
    /\ call.fn = "report"
    /\ ~call.done
    /\ LET df == ViewFilter(Annotate(call.records, now), call.view)
       IN call' = [call EXCEPT !.done = TRUE, !.df = df, !.csv = generate_csv(df)]
    /\ UNCHANGED app

NextReport == Report

SpecReport == InitReport /\ [][NextReport]_vars

----------------------------------------------------------------------------
\* Properties.

Ids(rows) == {rows[i].id : i \in DOMAIN rows}
Labels == {"EXPIRED", "URGENT", "WARNING", "SAFE"}

\* C1: classify_status(d) is the bucket of d in the partition d < 0 EXPIRED,
\* 0 <= d < 30 URGENT, 30 <= d < 90 WARNING, d >= 90 SAFE; 30 is WARNING and
\* 90 is SAFE.
C1_ClassifyPartition ==
    (call.fn = "classify_status" /\ call.done) =>
        LET d == call.days
            st == call.status
        IN /\ st \in {EXPIRED, URGENT, WARNING, SAFE}
           /\ (st = EXPIRED) <=> (d < 0)
           /\ (st = URGENT) <=> (0 <= d /\ d < 30)
           /\ (st = WARNING) <=> (30 <= d /\ d < 90)
           /\ (st = SAFE) <=> (d >= 90)
           /\ (d = 30) => (st = WARNING)
           /\ (d = 90) => (st = SAFE)

C1_Witness ==
    /\ call.fn = "classify_status"
    /\ call.done
    /\ call.days = 30
    /\ call.status = WARNING

\* C2: a frame computed by get_all_products at this instant holds, for every
\* row, the difference in calendar days between the expiry date and today's
\* date; a row that expires today has 0 days and is URGENT.
C2_CalendarDays ==
    \A u \in Users :
        (cache[u].valid /\ cache[u].at = now) =>
            \A i \in DOMAIN cache[u].value.df :
                LET r == cache[u].value.df[i]
                IN /\ r.days_to_expiry = DateOf(r.expiry_date) - DateOf(now)
                   /\ (DateOf(r.expiry_date) = DateOf(now)) =>
                          (r.days_to_expiry = 0 /\ r.status = URGENT)

\* the values the computation of line 90 gives for a timestamp over the
\* instants of date d
DaysOnDate(ts, d) ==
    {days_to_expiry(ts, d * SecondsPerDay), days_to_expiry(ts, d * SecondsPerDay + SecondsPerDay - 1)}

\* C3: every inventory read shows values computed at that read, never those
\* of an earlier read: when the date has changed since the cached read, the
\* rows show the days_to_expiry and status that the computation of lines
\* 90-92 gives at the time of this read.
C3_ComputedAtRead ==
    [][\A s \in Sessions :
          (/\ Render(s)
           /\ cache[session[s].user].valid
           /\ DateOf(cache[session[s].user].at) < DateOf(now)) =>
              \A i \in DOMAIN out'.df :
                  /\ out'.df[i].days_to_expiry = days_to_expiry(out'.df[i].expiry_date, now)
                  /\ out'.df[i].status =
                         classify_status(days_to_expiry(out'.df[i].expiry_date, now))]_vars

\* C4: while the store answers, no cache entry that a read would be served
\* holds a record set without a record the store has committed for that user.
C4_CacheIncludesWrites ==
    \A u \in Users :
        (storeUp /\ CacheHit(u)) => Ids(Fetch(store, u)) \subseteq Ids(cache[u].value.df)

C6_WindowFilter ==
    (call.fn = "report" /\ call.done) =>
        LET a == Annotate(call.records, now)
            kept(i) == \E j \in DOMAIN call.df : call.df[j] = a[i]
        IN /\ \A j \in DOMAIN call.df : \E i \in DOMAIN a : call.df[j] = a[i]
           /\ \A j, k \in DOMAIN call.df : j < k => call.df[j].id < call.df[k].id
           /\ (call.view = "all") => (call.df = a)
           /\ (call.view = "6months") =>
                  \A i \in DOMAIN a : kept(i) <=> (a[i].days_to_expiry <= 180)
           /\ (call.view = "expired") =>
                  \A i \in DOMAIN a : kept(i) <=> (a[i].days_to_expiry < 0)
           /\ Ids(ViewFilter(a, "expired")) \subseteq Ids(ViewFilter(a, "6months"))
           /\ (call.view = "expired") => (Ids(call.df) \subseteq Ids(ViewFilter(a, "6months")))

C6_Witness ==
    /\ call.fn = "report"
    /\ call.done
    /\ call.view = "6months"
    /\ \E j \in DOMAIN call.df : call.df[j].days_to_expiry < 0
    /\ \E i \in DOMAIN call.records : i \notin Ids(call.df)

\* C7: the status of every data row of the exported CSV is the undecorated
\* label EXPIRED, URGENT, WARNING or SAFE.
C7_CsvUndecorated ==
    \A i \in DOMAIN out.csv : (i > 1) => (out.csv[i][4] \in Labels)

C9_RetryRecovers ==
    [][\A s \in Sessions :
          (/\ Render(s)
           /\ storeUp
           /\ out.msg = "Error fetching data"
           /\ out.user = session[s].user
           /\ session'[s].view = "all") =>
              (Ids(out'.df) = Ids(Fetch(store, session[s].user)))]_vars

\* C10: the session's user is set exactly when its client is the one made
\* with that user's access token; with no user the client is the anonymous
\* one, and after a logout the cache is empty.
C10_UserIffAuthClient ==
    /\ \A s \in Sessions :
          /\ (session[s].user # None) => (session[s].supabase = AuthClient(session[s].user))
          /\ (session[s].user = None) => (session[s].supabase = AnonClient)
    /\ (out.msg = "Login failed") => (session[out.s].user = None)
    /\ (out.msg = "Login or Sign Up") => (cache = ClearedCache)

====
